---- MODULE Spec2Model ----
(***************************************************************************)
(* KoopmanEigenfunctions (core/learning/koopman_eigenfunctions.py):        *)
(* construction of the eigenfunction basis of the linearised closed loop,  *)
(* the lifting map, and the training loop of the diffeomorphism network.   *)
(*                                                                         *)
(* Numbers.  The floating point values of the program are modelled by the  *)
(* exact reals they approximate.  Every value the basis computes from      *)
(* integer inputs lies in Q(sqrt 2) (the eigenvectors of a rotation block  *)
(* have entries 1/sqrt 2), so a number is a record [a, b, d] standing for  *)
(* (a + b*sqrt(2)) / d, kept in lowest terms with d > 0.                   *)
(***************************************************************************)
EXTENDS Integers, Sequences, FiniteSets, TLC

\* Python's None is the empty tuple; a value that may be None is held as <<value>>
None == <<>>
Some(x) == <<x>>
Get(o) == o[1]

\* ------------------------------------------------------------- bounds
MaxN == 2
MaxPower == 1
MaxNt == 2
MaxEpochs == 2
MaxTraj == 2

\* ------------------------------------------------------------- numbers
Abs(x) == IF x < 0 THEN -x ELSE x

RECURSIVE Gcd(_, _)
Gcd(x, y) == IF y = 0 THEN x ELSE Gcd(y, x % y)

Num(a, b, d) ==
    LET s == IF d < 0 THEN -1 ELSE 1
        g == Gcd(Gcd(Abs(a), Abs(b)), Abs(d))
    IN  [a |-> (s * a) \div g, b |-> (s * b) \div g, d |-> (s * d) \div g]

Int2Num(k) == [a |-> k, b |-> 0, d |-> 1]
Zero == Int2Num(0)
One == Int2Num(1)
InvSqrt2 == Num(0, 1, 2)

NumAdd(x, y) == Num(x.a * y.d + y.a * x.d, x.b * y.d + y.b * x.d, x.d * y.d)
NumMul(x, y) == Num(x.a * y.a + 2 * x.b * y.b, x.a * y.b + x.b * y.a, x.d * y.d)
\* x / k for a rational k = kn/kd, kn # 0
NumDivRat(x, kn, kd) == Num(x.a * kd, x.b * kd, x.d * kn)

\* a power with 0^0 = 0
RECURSIVE powerZeroBase(_, _)
powerZeroBase(x, p) ==
    IF x = Zero THEN Zero ELSE IF p = 0 THEN One ELSE NumMul(x, powerZeroBase(x, p - 1))

\* numpy.power(x, p) for an integer p >= 0: x^0 = 1 for every x, 0 included
RECURSIVE power(_, _)
power(x, p) == IF p = 0 THEN One ELSE NumMul(x, power(x, p - 1))

RECURSIVE SumSeq(_)
SumSeq(s) == IF s = <<>> THEN Zero ELSE NumAdd(Head(s), SumSeq(Tail(s)))

RECURSIVE prod(_)
prod(s) == IF s = <<>> THEN One ELSE NumMul(Head(s), prod(Tail(s)))

RECURSIVE SumInt(_)
SumInt(s) == IF s = <<>> THEN 0 ELSE Head(s) + SumInt(Tail(s))

\* complex numbers: re and im are numbers
Cplx(re, im) == [re |-> re, im |-> im]
iscomplex(z) == z.im # Zero
real(z) == Cplx(z.re, Zero)

\* ------------------------------------------------------------- matrices
\* a matrix is a sequence of rows; a vector is a sequence.  array(s) is s held
\* as an evaluated tuple (numpy.array of a list)
array(s) == s \o <<>>
transpose(M) == array([j \in 1..Len(M[1]) |-> array([i \in 1..Len(M) |-> M[i][j]])])
Column(M, j) == array([i \in 1..Len(M) |-> M[i][j]])

\* M has a leading block [[a, c], [-c, a]] with c # 0 and is diagonal elsewhere
IsRotationBlock(M) ==
    /\ Len(M) >= 2
    /\ M[1][1] = M[2][2] /\ M[1][2] # 0 /\ M[2][1] = -M[1][2]
    /\ \A i, j \in 1..Len(M) : (i # j /\ (i > 2 \/ j > 2)) => M[i][j] = 0

\* ------------------------------------------------------------- numpy.linalg.eig
\* linalg.eig on the two families of matrices the model draws A_cl from, where
\* the decomposition is known in closed form:
\*   diagonal M: eigenvalues M[i][i] in diagonal order, eigenvectors the identity;
\*   leading block [[a, c], [-c, a]]: eigenvalues a + |c|i, a - |c|i (the one with
\*   positive imaginary part first), unit eigenvectors (1, +-sgn(c) i)/sqrt 2 with
\*   the first component real.
\* v[i][j] is component i of eigenvector j.
linalg_eig(M) ==
    LET m == Len(M)
        rot == IsRotationBlock(M)
        c == IF rot THEN M[1][2] ELSE 0
        sg == IF c > 0 THEN 1 ELSE -1
        lam(i) == IF rot /\ i = 1 THEN Cplx(Int2Num(M[1][1]), Int2Num(Abs(c)))
                  ELSE IF rot /\ i = 2 THEN Cplx(Int2Num(M[1][1]), Int2Num(-Abs(c)))
                  ELSE Cplx(Int2Num(M[i][i]), Zero)
        vec(i, j) == IF rot /\ i <= 2 /\ j <= 2
                     THEN IF i = 1 THEN Cplx(InvSqrt2, Zero)
                          ELSE IF j = 1 THEN Cplx(Zero, Num(0, sg, 2))
                          ELSE Cplx(Zero, Num(0, -sg, 2))
                     ELSE IF i = j THEN Cplx(One, Zero) ELSE Cplx(Zero, Zero)
    IN  [lambd |-> array([i \in 1..m |-> lam(i)]),
         v |-> array([i \in 1..m |-> array([j \in 1..m |-> vec(i, j)])])]

\* ------------------------------------------------------------- itertools, numpy.unique
\* combinations_with_replacement(p, n) over p = 0..max_power: the non-decreasing
\* length-n tuples
combinations_with_replacement(mp, k) ==
    {c \in [1..k -> 0..mp] : \A i \in 1..(k - 1) : c[i] <= c[i + 1]}

\* the combination itself only: the step that expands it is left out
permutationsOmitted(c) == {c}

\* permutations(c, n): c rearranged by every permutation of its positions
permutations(c) ==
    LET k == Len(c)
        Sigma == {f \in [1..k -> 1..k] : \A i, j \in 1..k : i # j => f[i] # f[j]}
    IN  {[i \in 1..k |-> c[f[i]]] : f \in Sigma}

LexLess(r1, r2) ==
    \E i \in 1..Len(r1) : /\ r1[i] < r2[i]
                          /\ \A j \in 1..(i - 1) : r1[j] = r2[j]

\* unique(rows, axis=0): the distinct rows in lexicographic order
unique(rowset) ==
    LET rank == [r \in rowset |-> Cardinality({o \in rowset : LexLess(o, r)})]
    IN  array([k \in 1..Cardinality(rowset) |->
                  array(CHOOSE r \in rowset : rank[r] = k - 1)])

\* ------------------------------------------------------------- exp and log
\* exp(x) is kept as the real e^x, written [e |-> x]; powers and products of
\* such values stay of that form and log reads the exponent back.
exp(x) == [e |-> x]
powerE(y, p) == [e |-> NumMul(y.e, Int2Num(p))]
RECURSIVE prodE(_)
prodE(s) == IF s = <<>> THEN [e |-> Zero]
            ELSE [e |-> NumAdd(Head(s).e, prodE(Tail(s)).e)]
log(y) == y.e

\* ------------------------------------------------------------- the basis
\* linfunc = lambda q: dot(transpose(w), q), for a closure over w
linfunc(w, q) ==
    LET wT == transpose(w)
    IN  array([j \in 1..Len(wT) |-> SumSeq([m \in 1..Len(q) |-> NumMul(wT[j][m], q[m])])])

\* eigfunc_lin = lambda q: prod(power(linfunc(q), transpose(powers)), axis=0),
\* for the closure f = [w, powers]; q is one column (length n)
EvalEigfuncLin(f, q) ==
    CHOOSE out \in
        {array([k \in 1..Len(f.powers) |->
            prod([j \in 1..Len(lf) |-> power(lf[j], f.powers[k][j])])]) :
         lf \in {linfunc(f.w, q)}} : TRUE

\* lines 64-67: the exponent rows
construct_powers(mp, nn) ==
    LET combinations == combinations_with_replacement(mp, nn)
    IN  unique(UNION {permutations(c) : c \in combinations})

\* Lambda sorted after it is computed, powers left as they are
construct_LambdaSorted(lambd, pw) ==
    LET lam == [k \in 1..Len(pw) |->
                   log(prodE([j \in 1..Len(lambd) |-> powerE(exp(lambd[j]), pw[k][j])]))]
        less(x, y) == x.a * y.d < y.a * x.d
    IN  array([k \in 1..Len(pw) |->
            CHOOSE v \in {lam[i] : i \in 1..Len(pw)} :
               /\ Cardinality({i \in 1..Len(pw) : less(lam[i], v)}) < k
               /\ Cardinality({i \in 1..Len(pw) : ~less(v, lam[i])}) >= k])

\* line 72: Lambda = log(prod(power(exp(lambd).reshape((n,1)), transpose(powers)), axis=0))
construct_Lambda(lambd, pw) ==
    array([k \in 1..Len(pw) |->
        log(prodE([j \in 1..Len(lambd) |-> powerE(exp(lambd[j]), pw[k][j])]))])

\* lines 56-62: the eigenvalues and left eigenvectors, complex parts dropped
\* when any entry of either is complex.  Warning(...) on line 60 only builds an
\* exception object: nothing is raised, printed or logged (warned stays empty).
eigen_decomposition(nn, A) ==
    LET lambd0 == linalg_eig(A).lambd
        w0 == linalg_eig(transpose(A)).v
        cplx == \/ \E i \in 1..nn : iscomplex(lambd0[i])
                \/ \E i, j \in 1..nn : iscomplex(w0[i][j])
    IN  [lambd |-> IF cplx THEN array([i \in 1..nn |-> real(lambd0[i])]) ELSE lambd0,
         w |-> IF cplx THEN array([i \in 1..nn |-> array([j \in 1..nn |-> real(w0[i][j])])])
               ELSE w0,
         complex |-> cplx,
         warned |-> <<>>]

\* construct_linear_eigfuncs: what it returns (eigfunc_lin), what it assigns
\* (Nlift, Lambda) and what it shows the user (warned)
construct_linear_eigfuncs(nn, mp, A) ==
    CHOOSE r \in
        {LET f == [w |-> array([i \in 1..nn |-> array([j \in 1..nn |-> ed.w[i][j].re])]),
                   powers |-> pw]
         IN  [eigfunc_lin |-> f,
              Nlift |-> Len(EvalEigfuncLin(f, array([i \in 1..nn |-> One]))),
              Lambda |-> construct_Lambda(array([j \in 1..nn |-> ed.lambd[j].re]), pw),
              lambd |-> ed.lambd,
              w |-> ed.w,
              complex |-> ed.complex,
              warned |-> ed.warned] :
         ed \in {eigen_decomposition(nn, A)}, pw \in {construct_powers(mp, nn)}} : TRUE

\* construct_scaling_function: scale_func = lambda q: divide(q, ub - lb)
construct_scaling_function(ub, lb) == array([j \in 1..Len(ub) |-> ub[j] - lb[j]])
EvalScaleFunc(scale_factor, q) ==
    array([j \in 1..Len(q) |-> NumDivRat(q[j], scale_factor[j], 1)])

\* ------------------------------------------------------------- the network
\* nn.Sequential(Linear, ReLU, ..., Linear) is kept opaque; the model
\* keeps one scalar of parameter state (params) and evaluates the network as
\* Linear -> ReLU -> Linear with every weight and bias equal to params, so that
\* the output depends on the parameters and on every input coordinate.
relu(x) == IF x > 0 THEN x ELSE 0
ModelForward(params, input, nout) ==
    array([j \in 1..nout |-> params * relu(SumInt(input)) + params])

\* the learned correction applied: return (q + diff_pred).transpose()
diffeomorphismLearned(model, q, q_d) ==
    LET input == q \o q_d
        diff_pred == ModelForward(Get(model).params, input, Len(q))
    IN  array([j \in 1..Len(q) |-> q[j] + diff_pred[j]])

\* diffeomorphism(q, q_d) for one column q (n x 1) and q_d (n x 1), with the
\* model built: the prediction is computed and dropped, q.T is returned
diffeomorphism(model, q, q_d) ==
    LET input == q \o q_d
        diff_pred == ModelForward(Get(model).params, input, Len(q))
    IN  q

\* basis = lambda q, t: eigfunc_lin(scale_func(diffeomorphism(q, t)))
EvalBasis(f, scale_factor, model, q, q_d) ==
    EvalEigfuncLin(f, EvalScaleFunc(scale_factor,
        array([j \in 1..Len(q) |-> Int2Num(diffeomorphism(model, q, q_d)[j])])))

\* every row computed from the first sample
liftFirstSample(f, scale_factor, model, q, q_d) ==
    array([ii \in 1..Len(q[1]) |->
              EvalBasis(f, scale_factor, model, Column(q, 1), Column(q_d, 1))])

\* lift(q, q_d): array([basis(q[:,ii], q_d[:,ii]) for ii in range(q.shape[1])])
lift(f, scale_factor, model, q, q_d) ==
    array([ii \in 1..Len(q[1]) |->
              EvalBasis(f, scale_factor, model, Column(q, ii), Column(q_d, ii))])

\* ------------------------------------------------------------- training data
\* utils.differentiate_vec(xs, ts): the numerical derivative of a trajectory, one
\* row per sample (same shape as xs).  Its code is not in this file; it is
\* modelled as the difference quotient to the next sample (to the previous one
\* at the last sample).
differentiate_vec(xs, ts) ==
    LET nt == Len(xs)
        quot(k0, k1) == array([j \in 1..Len(xs[1]) |->
                            (xs[k1][j] - xs[k0][j]) \div (ts[k1] - ts[k0])])
    IN  array([k \in 1..nt |-> IF k < nt THEN quot(k, k + 1) ELSE quot(k - 1, k)])

RECURSIVE Flatten(_)
Flatten(ss) == IF ss = <<>> THEN <<>> ELSE Head(ss) \o Flatten(Tail(ss))

\* process(X, t, X_d): shift by the final desired state, differentiate, and
\* reshape [Ntraj, Nt, Ns] into [Ntraj*Nt, Ns]
process(X, t, X_d) ==
    LET nt == Len(X[1])
        X_f == [ii \in 1..Len(X) |-> X_d[ii][nt]]
        sub(u, v) == array([j \in 1..Len(u) |-> u[j] - v[j]])
        X_shift == array([ii \in 1..Len(X) |-> array([k \in 1..nt |-> sub(X[ii][k], X_f[ii])])])
        X_d_shift == array([ii \in 1..Len(X) |->
                         array([k \in 1..nt |-> sub(X_d[ii][k], X_f[ii])])])
        X_dot == array([ii \in 1..Len(X) |-> differentiate_vec(X_shift[ii], t[ii])])
    IN  [X |-> Flatten(X_shift), X_dot |-> Flatten(X_dot), X_d |-> Flatten(X_d_shift),
         t |-> Flatten(t)]

\* dot(A_cl, x) for one sample x
MatVec(A, x) == array([i \in 1..Len(A) |-> SumInt([j \in 1..Len(x) |-> A[i][j] * x[j]])])

\* lines 144-157: the training tensors, one row per sample
\*   X_tensor = concatenate((X, X_d, X_dot), axis=1),  y_tensor = X_dot - A_cl X
train_tensors(A, X, t, X_d) ==
    LET pr == process(X, t, X_d)
    IN  [X_tensor |-> array([k \in 1..Len(pr.X) |-> pr.X[k] \o pr.X_d[k] \o pr.X_dot[k]]),
         y_tensor |-> array([k \in 1..Len(pr.X) |->
                         array([j \in 1..Len(A) |-> pr.X_dot[k][j] - MatVec(A, pr.X[k])[j]])])]

\* lines 169-174: the validation tensors of an explicit validation set
\*   X_val_tensor = concatenate((X_val, X_dot_val, X_dot_val), axis=1)
val_tensors(A, X_val, t_val, Xd_val) ==
    LET pr == process(X_val, t_val, Xd_val)
    IN  [X_tensor |-> array([k \in 1..Len(pr.X) |-> pr.X[k] \o pr.X_dot[k] \o pr.X_dot[k]]),
         y_tensor |-> array([k \in 1..Len(pr.X) |->
                         array([j \in 1..Len(A) |-> pr.X_dot[k][j] - MatVec(A, pr.X[k])[j]])])]

\* xt = x_batch[:, :2*n] and xdot = x_batch[:, 2*n:] of one row
xt_of(row, nn) == SubSeq(row, 1, 2 * nn)
xdot_of(row, nn) == SubSeq(row, 2 * nn + 1, Len(row))

\* len(DataLoader(dataset, batch_size)): the batches of one pass
NumBatches(size, batch_size) == (size + batch_size - 1) \div batch_size

\* an average that guards the empty list and yields 0
averageGuarded(batch_losses) ==
    IF Len(batch_losses) = 0 THEN [error |-> "", value |-> Zero]
    ELSE [error |-> "", value |-> NumDivRat(SumSeq(batch_losses), Len(batch_losses), 1)]

\* sum(batch_loss)/len(batch_loss): ZeroDivisionError on an empty list
average(batch_losses) ==
    IF Len(batch_losses) = 0 THEN [error |-> "ZeroDivisionError", value |-> Zero]
    ELSE [error |-> "", value |-> NumDivRat(SumSeq(batch_losses), Len(batch_losses), 1)]

\* lambda1 = lambda epoch: learning_decay ** epoch, and LambdaLR's
\* lr = base_lr * lambda1(last_epoch)
lambda1(learning_decay, epoch) == power(learning_decay, epoch)
scheduler_lr(base_lr, learning_decay, last_epoch) ==
    NumMul(base_lr, lambda1(learning_decay, last_epoch))

\* optimizer.step(): the parameters after one Adam step
optimizer_step(params) == params + 1

\* ------------------------------------------------------------- state
VARIABLES
    n, max_power, A_cl, BK,     \* constructor arguments (lines 31-34)
    A_cl_is_tensor,             \* self.A_cl has been through from_numpy (line 117)
    Nlift, Lambda,              \* set by construct_linear_eigfuncs
    eigfunc_lin,                \* None, or <<the closure [w, powers]>>
    scale_func,                 \* the closure's scale_factor, or None
    basis,                      \* None, or <<"lambda">> once construct_basis ran
    diffeomorphism_model,       \* None, or <<[params, training]>>
    warnings,                   \* what the user has been shown
    file,                       \* the saved state_dict, or None
    lifted,                     \* the last lift call on the current basis, with what
                                \* it returned or raised, or None
    fit                         \* the frame of fit_diffeomorphism_model

objvars == <<n, max_power, A_cl, BK>>
basisvars == <<Nlift, Lambda, eigfunc_lin, scale_func, basis, warnings>>
vars == <<n, max_power, A_cl, BK, A_cl_is_tensor, Nlift, Lambda, eigfunc_lin, scale_func, basis,
          diffeomorphism_model, warnings, file, lifted, fit>>

\* ------------------------------------------------------------- inputs
\* closed-loop matrices: diag(-1, ..., -n), diag(-n, ..., -1), -I, and for
\* n >= 2 the matrix with leading block [[-1, -1], [1, -1]] (eigenvalues -1 +- i)
diag(d) == [i \in 1..Len(d) |-> [j \in 1..Len(d) |-> IF i = j THEN d[i] ELSE 0]]
DiagMatrices(nn) ==
    {diag([i \in 1..nn |-> -i]), diag([i \in 1..nn |-> i - nn - 1]), diag([i \in 1..nn |-> -1])}
RotationMatrices(nn) ==
    IF nn < 2 THEN {}
    ELSE {[i \in 1..nn |-> [j \in 1..nn |->
              IF i = j THEN -1
              ELSE IF i = 1 /\ j = 2 THEN -1
              ELSE IF i = 2 /\ j = 1 THEN 1 ELSE 0]]}
ClosedLoopMatrices(nn) == DiagMatrices(nn) \cup RotationMatrices(nn)

\* (ub, lb) pairs with ub > lb elementwise
BoundPairs(nn) ==
    {<<[j \in 1..nn |-> 1], [j \in 1..nn |-> -1]>>,
     <<[j \in 1..nn |-> j], [j \in 1..nn |-> -1]>>}

\* n x Nt state matrices: the origin as one sample, and for every Nt a ramp
\* whose columns all differ
StateMatrices(nn) ==
    {[i \in 1..nn |-> <<0>>]} \cup
    {[i \in 1..nn |-> [k \in 1..nt |-> i + k - 1]] : nt \in 1..MaxNt}
DesiredMatrices(nn, nt) == {[i \in 1..nn |-> [k \in 1..nt |-> c]] : c \in {0, 1}}

\* trajectories [Nt, Ns] with their desired trajectories, Nt = 3, t = (0, 1, 2),
\* linear in t: a falling state tracking a falling reference, and a state at
\* rest above a reference at rest
Trajectories(nn) ==
    {[X |-> <<[j \in 1..nn |-> 3], [j \in 1..nn |-> 2], [j \in 1..nn |-> 1]>>,
      X_d |-> <<[j \in 1..nn |-> 2], [j \in 1..nn |-> 1], [j \in 1..nn |-> 0]>>,
      t |-> <<0, 1, 2>>],
     [X |-> <<[j \in 1..nn |-> 1], [j \in 1..nn |-> 1], [j \in 1..nn |-> 1]>>,
      X_d |-> <<[j \in 1..nn |-> 0], [j \in 1..nn |-> 0], [j \in 1..nn |-> 0]>>,
      t |-> <<0, 1, 2>>]}
\* data sets (X, t, X_d) of 1..MaxTraj copies of one trajectory
DataSets(nn) ==
    {[X |-> [ii \in 1..k |-> tr.X], t |-> [ii \in 1..k |-> tr.t],
      X_d |-> [ii \in 1..k |-> tr.X_d]] : tr \in Trajectories(nn), k \in 1..MaxTraj}
\* train_frac as a fraction <<numerator, denominator>>
TrainFracs == {<<0, 1>>, <<1, 2>>, <<4, 5>>, <<1, 1>>}
BatchSizes == {3, 64}
LearningRates == {Num(1, 0, 100)}
LearningDecays == {Num(19, 0, 20)}
\* values of loss.item()
LossValues == {Int2Num(1), Int2Num(3)}

IdleFit ==
    [pc |-> "idle", error |-> "", returned |-> None, data |-> None, val |-> None,
     n_epochs |-> 0, i |-> 0, batch_size |-> 0,
     X_tensor |-> <<>>, y_tensor |-> <<>>, X_val_tensor |-> None, y_val_tensor |-> None,
     n_train |-> 0, n_val |-> 0,
     learning_rate |-> Zero, learning_decay |-> Zero, lr |-> Zero, last_epoch |-> 0,
     train_iter |-> 0, val_iter |-> 0,
     batch_loss |-> <<>>, losses |-> <<>>, batch_val_loss |-> <<>>, val_losses |-> <<>>]

\* ------------------------------------------------------------- construction
\* __init__
Init ==
    /\ n \in 1..MaxN
    /\ max_power \in 0..MaxPower
    /\ A_cl \in ClosedLoopMatrices(n)
    /\ BK = [i \in 1..n |-> <<0>>]
    /\ A_cl_is_tensor = FALSE
    /\ Nlift = None /\ Lambda = None /\ basis = None
    /\ eigfunc_lin = None /\ scale_func = None
    /\ diffeomorphism_model = None
    /\ warnings = <<>>
    /\ file \in {None, Some(1)}
    /\ lifted = None
    /\ fit = IdleFit

\* construct_basis(ub, lb)
ConstructBasis ==
    \E bp \in BoundPairs(n) : \E r \in {construct_linear_eigfuncs(n, max_power, A_cl)} :
        /\ eigfunc_lin' = Some(r.eigfunc_lin)
        /\ Nlift' = Some(r.Nlift)
        /\ Lambda' = r.Lambda
        /\ warnings' = warnings \o r.warned
        /\ scale_func' = construct_scaling_function(bp[1], bp[2])
        /\ basis' = Some("lambda")
        /\ lifted' = None
        /\ UNCHANGED <<objvars, A_cl_is_tensor, diffeomorphism_model, file, fit>>

\* build_diffeomorphism_model: a fresh network, in training mode, then
\* self.A_cl = from_numpy(self.A_cl); on a second call from_numpy raises
\* TypeError on the tensor, after the network has been replaced
BuildDiffeomorphismModel ==
    /\ diffeomorphism_model' = Some([params |-> 0, training |-> TRUE])
    /\ A_cl_is_tensor' = TRUE
    /\ UNCHANGED <<objvars, basisvars, file, lifted, fit>>

\* save_diffeomorphism_model
SaveDiffeomorphismModel ==
    /\ diffeomorphism_model # None
    /\ file' = Some(Get(diffeomorphism_model).params)
    /\ UNCHANGED <<objvars, A_cl_is_tensor, basisvars, diffeomorphism_model, lifted, fit>>

\* load_diffeomorphism_model
LoadDiffeomorphismModel ==
    /\ diffeomorphism_model # None /\ file # None
    /\ diffeomorphism_model' = Some([Get(diffeomorphism_model) EXCEPT !.params = Get(file)])
    /\ UNCHANGED <<objvars, A_cl_is_tensor, basisvars, file, lifted, fit>>

\* lift(q, q_d): basis is None -> TypeError; the model is None -> AttributeError
\* in diffeomorphism (line 86); otherwise diffeomorphism puts the model in
\* evaluation mode and the Nt rows are returned
Lift ==
    \E q \in StateMatrices(n) : \E q_d \in DesiredMatrices(n, Len(q[1])) :
        IF basis = None
        THEN /\ lifted' = Some([q |-> q, q_d |-> q_d, params |-> None,
                                 error |-> "TypeError", out |-> <<>>])
             /\ UNCHANGED <<objvars, A_cl_is_tensor, basisvars, diffeomorphism_model, file, fit>>
        ELSE IF diffeomorphism_model = None
        THEN /\ lifted' = Some([q |-> q, q_d |-> q_d, params |-> None,
                                 error |-> "AttributeError", out |-> <<>>])
             /\ UNCHANGED <<objvars, A_cl_is_tensor, basisvars, diffeomorphism_model, file, fit>>
        ELSE /\ lifted' = Some([q |-> q, q_d |-> q_d,
                     params |-> Some(Get(diffeomorphism_model).params), error |-> "",
                     out |-> lift(Get(eigfunc_lin), scale_func, diffeomorphism_model, q, q_d)])
             /\ diffeomorphism_model' = Some([Get(diffeomorphism_model) EXCEPT !.training = FALSE])
             /\ UNCHANGED <<objvars, A_cl_is_tensor, basisvars, file, fit>>

\* ------------------------------------------------------------- fit_diffeomorphism_model
\* the object with n = 1, A_cl = [[-1]], the network built and parameters
\* loaded from a file; no basis yet
InitFit ==
    /\ n = 1 /\ max_power = 1
    /\ A_cl = <<<<-1>>>>
    /\ BK = <<<<0>>>>
    /\ A_cl_is_tensor = TRUE
    /\ Nlift = None /\ Lambda = None /\ basis = None
    /\ eigfunc_lin = None /\ scale_func = None
    /\ diffeomorphism_model = Some([params |-> 1, training |-> TRUE])
    /\ warnings = <<>>
    /\ file = Some(1)
    /\ lifted = None
    /\ fit = IdleFit

\* lines 144-264, up to the first epoch: the data, the loaders, the optimizer
\* and scheduler, the initial weights.
\*   split == TRUE : X_val is None, the samples are split by train_frac
\*   split == FALSE: (X_val, t_val, Xd_val) = val is the validation set
\* DataLoader(shuffle=True) builds a RandomSampler, which refuses an empty
\* data set in some torch releases (sampler_rejects) and yields no batch in others.
\* Which samples a batch holds is not kept: the split and the shuffle are random
\* and the loss of a batch is drawn from LossValues.
StartFrame(data, val, split, train_frac, bs, epochs, lr0, decay, sampler_rejects) ==
    LET tt == train_tensors(A_cl, data.X, data.t, data.X_d)
        vt == val_tensors(A_cl, val.X, val.t, val.X_d)
        total == Len(tt.X_tensor)
        ntr == IF split THEN (train_frac[1] * total) \div train_frac[2] ELSE total
        nva == IF split THEN total - ntr ELSE Len(vt.X_tensor)
        frame == [IdleFit EXCEPT
                    !.data = Some(data), !.val = IF split THEN None ELSE Some(val),
                    !.n_epochs = epochs, !.batch_size = bs,
                    !.X_tensor = tt.X_tensor, !.y_tensor = tt.y_tensor,
                    !.X_val_tensor = IF split THEN None ELSE Some(vt.X_tensor),
                    !.y_val_tensor = IF split THEN None ELSE Some(vt.y_tensor),
                    !.n_train = ntr, !.n_val = nva]
    IN  IF ntr = 0 /\ sampler_rejects
        THEN [frame EXCEPT !.pc = "error", !.error = "ValueError"]
        ELSE IF epochs = 0
        THEN [frame EXCEPT !.pc = "error", !.error = "IndexError",
                           !.learning_rate = lr0, !.learning_decay = decay,
                           !.lr = scheduler_lr(lr0, decay, 0)]
        ELSE [frame EXCEPT !.pc = "train",
                           !.learning_rate = lr0, !.learning_decay = decay,
                           !.lr = scheduler_lr(lr0, decay, 0)]

\* init_normal: fresh weights
init_normal(params) == 0

FitStart ==
    /\ fit.pc = "idle"
    /\ diffeomorphism_model # None
    /\ \E data \in DataSets(n), split \in BOOLEAN, initialize \in BOOLEAN,
          bs \in BatchSizes, epochs \in 0..MaxEpochs,
          lr0 \in LearningRates, decay \in LearningDecays, sampler_rejects \in BOOLEAN :
       \E val \in (IF split THEN {data} ELSE {data} \cup {d \in DataSets(n) : Len(d.X) = 1}),
          train_frac \in (IF split THEN TrainFracs ELSE {<<1, 1>>}) :
          /\ sampler_rejects => (split /\ train_frac[1] = 0)
          /\ fit' = StartFrame(data, val, split, train_frac, bs, epochs, lr0, decay,
                               sampler_rejects)
          /\ diffeomorphism_model' =
                IF fit'.error # "ValueError" /\ initialize
                THEN Some([Get(diffeomorphism_model) EXCEPT
                              !.params = init_normal(Get(diffeomorphism_model).params)])
                ELSE diffeomorphism_model
    /\ UNCHANGED <<objvars, A_cl_is_tensor, basisvars, file, lifted>>

\* lines 269-278: one mini-batch of the training pass; train_step puts the
\* model in training mode and takes one optimizer step
TrainBatch ==
    /\ fit.pc = "train"
    /\ fit.train_iter < NumBatches(fit.n_train, fit.batch_size)
    /\ \E loss \in LossValues :
          fit' = [fit EXCEPT !.train_iter = @ + 1, !.batch_loss = Append(@, loss)]
    /\ diffeomorphism_model' =
          Some([params |-> optimizer_step(Get(diffeomorphism_model).params),
                training |-> TRUE])
    /\ UNCHANGED <<objvars, A_cl_is_tensor, basisvars, file, lifted>>

\* lines 279-280: the training loader is exhausted
EndTrainPass ==
    /\ fit.pc = "train"
    /\ fit.train_iter = NumBatches(fit.n_train, fit.batch_size)
    /\ \E avg \in {average(fit.batch_loss)} :
          fit' = IF avg.error # ""
                 THEN [fit EXCEPT !.pc = "error", !.error = avg.error]
                 ELSE [fit EXCEPT !.pc = "val", !.losses = Append(@, avg.value),
                                  !.batch_loss = <<>>, !.val_iter = 0]
    /\ UNCHANGED <<objvars, A_cl_is_tensor, basisvars, diffeomorphism_model, file, lifted>>

\* a validation batch that also takes an optimizer step
ValBatchStepping ==
    /\ fit.pc = "val"
    /\ fit.val_iter < NumBatches(fit.n_val, fit.batch_size)
    /\ \E loss \in LossValues :
          fit' = [fit EXCEPT !.val_iter = @ + 1, !.batch_val_loss = Append(@, loss)]
    /\ diffeomorphism_model' =
          Some([params |-> optimizer_step(Get(diffeomorphism_model).params),
                training |-> FALSE])
    /\ UNCHANGED <<objvars, A_cl_is_tensor, basisvars, file, lifted>>

\* lines 284-297: one mini-batch of the validation pass, in evaluation mode;
\* gradients are computed and cleared, no optimizer step is taken
ValBatch ==
    /\ fit.pc = "val"
    /\ fit.val_iter < NumBatches(fit.n_val, fit.batch_size)
    /\ \E loss \in LossValues :
          fit' = [fit EXCEPT !.val_iter = @ + 1, !.batch_val_loss = Append(@, loss)]
    /\ diffeomorphism_model' = Some([Get(diffeomorphism_model) EXCEPT !.training = FALSE])
    /\ UNCHANGED <<objvars, A_cl_is_tensor, basisvars, file, lifted>>

\* lines 298-305: the validation loader is exhausted; scheduler.step(i); the
\* next epoch, or return val_losses[-1]
EndValPass ==
    /\ fit.pc = "val"
    /\ fit.val_iter = NumBatches(fit.n_val, fit.batch_size)
    /\ \E avg \in {average(fit.batch_val_loss)} :
          fit' = IF avg.error # ""
                 THEN [fit EXCEPT !.pc = "error", !.error = avg.error]
                 ELSE LET f1 == [fit EXCEPT
                                   !.val_losses = Append(@, avg.value),
                                   !.batch_val_loss = <<>>,
                                   !.last_epoch = fit.i,
                                   !.lr = scheduler_lr(fit.learning_rate,
                                                       fit.learning_decay, fit.i)]
                      IN  IF fit.i + 1 < fit.n_epochs
                          THEN [f1 EXCEPT !.pc = "train", !.i = @ + 1, !.train_iter = 0]
                          ELSE [f1 EXCEPT !.pc = "done",
                                          !.returned = Some(f1.val_losses[Len(f1.val_losses)])]
    /\ UNCHANGED <<objvars, A_cl_is_tensor, basisvars, diffeomorphism_model, file, lifted>>

NextFit ==
    \/ FitStart
    \/ TrainBatch
    \/ EndTrainPass
    \/ ValBatch
    \/ EndValPass

SpecFit == InitFit /\ [][NextFit]_vars

Next ==
    \/ ConstructBasis
    \/ BuildDiffeomorphismModel
    \/ SaveDiffeomorphismModel
    \/ LoadDiffeomorphismModel
    \/ Lift

Spec == Init /\ [][Next]_vars

\* ------------------------------------------------------------- properties
RECURSIVE IntPow(_, _)
IntPow(x, p) == IF p = 0 THEN 1 ELSE x * IntPow(x, p - 1)

BasisBuilt == basis # None
Powers == Get(eigfunc_lin).powers
\* the real part of eigenvalue j of A_cl, an integer for the matrices drawn
Eigenvalue(j) == linalg_eig(A_cl).lambd[j].re.a
HasComplexEigen ==
    \/ \E j \in 1..n : linalg_eig(A_cl).lambd[j].im # Zero
    \/ \E i, j \in 1..n : linalg_eig(transpose(A_cl)).v[i][j].im # Zero

\* C1: once construct_linear_eigfuncs has run, the rows of powers are exactly
\* the length-n sequences over 0..max_power, each once, and Nlift is their
\* number (max_power+1)^n; for n = 2, max_power = 1 the rows are
\* (0,0), (0,1), (1,0), (1,1) and Nlift = 4.
C1_PowersEnumerateAllSequences ==
    BasisBuilt =>
        /\ {Powers[k] : k \in 1..Len(Powers)} = [1..n -> 0..max_power]
        /\ \A k1, k2 \in 1..Len(Powers) : k1 # k2 => Powers[k1] # Powers[k2]
        /\ Get(Nlift) = Len(Powers)
        /\ Get(Nlift) = IntPow(max_power + 1, n)
        /\ (n = 2 /\ max_power = 1) =>
              /\ Powers = <<<<0, 0>>, <<0, 1>>, <<1, 0>>, <<1, 1>>>>
              /\ Get(Nlift) = 4
C1_Witness == BasisBuilt /\ n = 2 /\ max_power = 1 /\ Get(Nlift) = 4

\* C2: Lambda has one entry per row of powers, in the row order, and entry i is
\* the sum over j of eigenvalue_j * powers[i][j]; for A_cl = diag(-1, -2) and
\* max_power = 1, Lambda = (0, -2, -1, -3).
C2_LambdaRowAligned ==
    BasisBuilt =>
        /\ Len(Lambda) = Len(Powers)
        /\ \A i \in 1..Len(Powers) :
              Lambda[i] = Int2Num(SumInt([j \in 1..n |-> Eigenvalue(j) * Powers[i][j]]))
        /\ (A_cl = diag(<<-1, -2>>) /\ max_power = 1) =>
              Lambda = <<Int2Num(0), Int2Num(-2), Int2Num(-1), Int2Num(-3)>>
C2_Witness ==
    /\ BasisBuilt /\ A_cl = diag(<<-1, -2>>) /\ max_power = 1
    /\ Lambda = <<Int2Num(0), Int2Num(-2), Int2Num(-1), Int2Num(-3)>>

\* C7: when an eigenvalue or a left-eigenvector entry of A_cl is complex,
\* construct_linear_eigfuncs shows the user a warning and goes on with the real
\* parts; when none is, it shows no warning.
C7_WarnsOnComplex ==
    BasisBuilt =>
        /\ HasComplexEigen <=> (warnings # <<>>)
        /\ \A i \in 1..Len(Powers) :
              Lambda[i] = Int2Num(SumInt([j \in 1..n |-> Eigenvalue(j) * Powers[i][j]]))

LiftReturned == lifted # None /\ Get(lifted).error = ""
Nt(q) == Len(q[1])
Origin(nn, nt) == [i \in 1..nn |-> [k \in 1..nt |-> 0]]
ModelAtCall == Some([params |-> Get(Get(lifted).params), training |-> FALSE])

\* C3 as claimed: lift returns an Nlift x Nt array whose column ii is
\* basis(q[:,ii], q_d[:,ii]).
C3_LiftIsNliftByNt ==
    LiftReturned =>
        LET r == Get(lifted)
        IN  /\ Len(r.out) = Get(Nlift)
            /\ \A k \in 1..Len(r.out) : Len(r.out[k]) = Nt(r.q)
            /\ \A k \in 1..Len(r.out) : \A ii \in 1..Nt(r.q) :
                  r.out[k][ii] = EvalBasis(Get(eigfunc_lin), scale_func, ModelAtCall,
                                           Column(r.q, ii), Column(r.q_d, ii))[k]

\* C3 amended: when lift returns, it returns an Nt x Nlift array whose row ii
\* is basis(q[:,ii], q_d[:,ii]), computed from sample ii alone, in time order.
C3_LiftIsNtByNlift ==
    LiftReturned =>
        LET r == Get(lifted)
        IN  /\ Len(r.out) = Nt(r.q)
            /\ \A ii \in 1..Nt(r.q) :
                  /\ Len(r.out[ii]) = Get(Nlift)
                  /\ r.out[ii] = EvalBasis(Get(eigfunc_lin), scale_func, ModelAtCall,
                                           Column(r.q, ii), Column(r.q_d, ii))
C3_Witness ==
    /\ LiftReturned
    /\ Nt(Get(lifted).q) = 2 /\ Get(Nlift) = 4
    /\ Get(lifted).q[1] = <<1, 2>>
    /\ Get(lifted).out[1] # Get(lifted).out[2]

\* the end-to-end scenario: n = 2, max_power = 1, A_cl = diag(-1, -2),
\* BK = zeros(2,1), construct_basis(ub = (1,1), lb = (-1,-1)), then
\* lift(q = origin, q_d = origin)
InScenario ==
    /\ n = 2 /\ max_power = 1 /\ A_cl = diag(<<-1, -2>>) /\ BK = <<<<0>>, <<0>>>>
    /\ BasisBuilt /\ scale_func = <<2, 2>>
ScenarioLift(l) == l # None /\ Get(l).q = Origin(2, 1) /\ Get(l).q_d = Origin(2, 1)

\* C4 as claimed: in the scenario the lift completes and yields four zeros.
C4_ScenarioLiftIsZero ==
    (InScenario /\ ScenarioLift(lifted)) =>
        /\ Get(lifted).error = ""
        /\ \A ii \in 1..Len(Get(lifted).out) :
              /\ Len(Get(lifted).out[ii]) = 4
              /\ \A k \in 1..4 : Get(lifted).out[ii][k] = Zero

\* C4 amended: in the scenario the lift raises AttributeError while no
\* diffeomorphism model has been built; once one is built it completes and
\* yields the 1 x 4 array (1, 0, 0, 0): the entry of the power row (0,0) is
\* 0^0 * 0^0 = 1, the other three are 0.
C4_ScenarioLiftIsUnitRow ==
    [][(InScenario /\ ScenarioLift(lifted') /\ lifted' # lifted) =>
          IF diffeomorphism_model = None
          THEN Get(lifted').error = "AttributeError"
          ELSE /\ Get(lifted').error = ""
               /\ Get(lifted').out = <<<<One, Zero, Zero, Zero>>>>]_vars
C4_Witness ==
    /\ InScenario /\ ScenarioLift(lifted)
    /\ Get(lifted).out = <<<<One, Zero, Zero, Zero>>>>

\* C9: the diffeomorphism step hands the raw state on, so what lift returns
\* depends on q alone: with any other parameters of the network and any other
\* q_d the same call returns the same array.
C9_LiftIgnoresModelAndDesired ==
    LiftReturned =>
        LET r == Get(lifted)
        IN  \A p \in {0, 1, 2} : \A qd \in DesiredMatrices(n, Nt(r.q)) :
               lift(Get(eigfunc_lin), scale_func, Some([params |-> p, training |-> FALSE]),
                    r.q, qd) = r.out
C9_Witness ==
    /\ LiftReturned
    /\ Get(lifted).params = Some(1)
    /\ Get(lifted).q_d[1][1] = 1
    /\ Get(lifted).q[1] = <<1, 2>>

params == Get(diffeomorphism_model).params
Mean(l) == NumDivRat(SumSeq(l), Len(l), 1)
TrainBatches == NumBatches(fit.n_train, fit.batch_size)
ValBatches == NumBatches(fit.n_val, fit.batch_size)
FitNonEmpty == fit.pc # "idle" /\ fit.n_epochs >= 1 /\ fit.n_train > 0 /\ fit.n_val > 0

\* the epochs run in sequence, each one a full training pass and then a full
\* validation pass, n_epochs of them
C5_EpochOrder ==
    FitNonEmpty =>
        /\ fit.pc \in {"train", "val", "done"}
        /\ fit.i < fit.n_epochs
        /\ fit.pc = "train" =>
              /\ Len(fit.losses) = fit.i /\ Len(fit.val_losses) = fit.i
              /\ Len(fit.batch_loss) = fit.train_iter /\ fit.batch_val_loss = <<>>
        /\ fit.pc = "val" =>
              /\ fit.train_iter = TrainBatches
              /\ Len(fit.losses) = fit.i + 1 /\ Len(fit.val_losses) = fit.i
              /\ Len(fit.batch_val_loss) = fit.val_iter
        /\ fit.pc = "done" =>
              /\ fit.i = fit.n_epochs - 1
              /\ Len(fit.losses) = fit.n_epochs /\ Len(fit.val_losses) = fit.n_epochs
              /\ fit.returned # None
              /\ Get(fit.returned) = fit.val_losses[fit.n_epochs]
\* a step of the fit: parameters move only in a training batch, by one
\* optimizer step; the return value is the mean of the validation batch losses
\* gathered since the last training pass
C5_Steps ==
    (FitNonEmpty /\ fit' # fit) =>
        /\ (fit.pc = "train" /\ fit'.train_iter = fit.train_iter + 1) =>
              /\ fit.train_iter < TrainBatches
              /\ Get(diffeomorphism_model').params = optimizer_step(params)
        /\ ~(fit.pc = "train" /\ fit'.train_iter = fit.train_iter + 1) =>
              Get(diffeomorphism_model').params = params
        /\ fit.pc = "val" => Get(diffeomorphism_model').params = params
        /\ (fit.pc = "train" /\ fit'.pc = "val") => fit.train_iter = TrainBatches
        /\ (fit.pc = "val" /\ fit'.pc # "val") =>
              /\ fit.val_iter = ValBatches /\ Len(fit.batch_val_loss) = ValBatches
              /\ fit'.val_losses = Append(fit.val_losses, Mean(fit.batch_val_loss))
        /\ fit'.pc = "done" =>
              /\ fit.i = fit.n_epochs - 1
              /\ fit'.returned = Some(Mean(fit.batch_val_loss))

\* C5: with n_epochs >= 1 and both sets non-empty the fit runs n_epochs epochs
\* in sequence; in an epoch every training batch (one optimizer step each)
\* comes before any validation batch; only training batches change the
\* parameters; the value returned is the mean of the last epoch's validation
\* batch losses.
C5_EpochsTrainThenValidate == [](C5_EpochOrder) /\ [][C5_Steps]_vars
C5_Witness ==
    /\ fit.pc = "done" /\ fit.n_epochs = 2
    /\ TrainBatches = 2 /\ ValBatches = 2
    /\ fit.val_losses = <<Int2Num(1), Int2Num(2)>>
    /\ fit.returned = Some(Int2Num(2))
    /\ params = 4

\* C6 as claimed: every optimizer step of epoch e uses
\* learning_rate * learning_decay^e.
C6_GeometricDecayPerEpoch ==
    (fit.pc = "train" /\ fit.train_iter < TrainBatches) =>
        fit.lr = NumMul(fit.learning_rate, power(fit.learning_decay, fit.i))

\* C8 as claimed: an explicit validation set is laid out as the training set
\* is, (shifted state, shifted desired state | state derivative), so the same
\* trajectories give the same rows on both paths.
C8_ValidationLaidOutAsTraining ==
    (fit.pc # "idle" /\ fit.val # None) =>
        LET pr == process(Get(fit.val).X, Get(fit.val).t, Get(fit.val).X_d)
            rows == Get(fit.X_val_tensor)
        IN  /\ Len(rows) = Len(pr.X)
            /\ \A k \in 1..Len(rows) :
                  /\ xt_of(rows[k], n) = pr.X[k] \o pr.X_d[k]
                  /\ xdot_of(rows[k], n) = pr.X_dot[k]
            /\ fit.val = fit.data => rows = fit.X_tensor

EmptyPass ==
    \/ fit.pc = "train" /\ TrainBatches = 0
    \/ fit.pc = "val" /\ ValBatches = 0
\* C10: a pass of zero batches ends the fit with ZeroDivisionError: nothing is
\* returned, nothing runs after the failure, and the parameters stay as the
\* earlier training batches left them.
C10_EmptyPassAborts ==
    /\ [](fit.pc = "error" => fit.returned = None)
    /\ [][/\ fit.pc # "error"
          /\ EmptyPass =>
                /\ fit'.pc = "error" /\ fit'.error = "ZeroDivisionError"
                /\ fit'.returned = None
                /\ diffeomorphism_model' = diffeomorphism_model]_vars
C10_Witness ==
    /\ fit.pc = "error" /\ fit.error = "ZeroDivisionError"
    /\ fit.n_train > 0 /\ fit.n_val = 0
    /\ fit.i = 0 /\ fit.train_iter = 2 /\ params = 3

====
